---- MODULE Spec2Model ----
(***************************************************************************)
(* Model of mcp-server-requests: the request execution and response        *)
(* rendering pipeline of src/mcp_server_requests/request.py, and the       *)
(* server process of src/mcp_server_requests/__main__.py around it (main,  *)
(* get_user_agent, the fetch_to_file tool).                                *)
(*                                                                         *)
(* Five specifications share the variables: SpecMerge (merge_query_to_url  *)
(* as a function), SpecFormatError (format_error_result as a function),    *)
(* Spec (one invocation of mcp_http_request), SpecConcurrent (several      *)
(* invocations interleaved) and SpecServer (start-up and fetch_to_file).   *)
(*                                                                         *)
(* Text is modelled as a sequence of tokens (TLA+ strings); the token CRLF *)
(* stands for "\r\n".  String operations of the code (startswith, join,    *)
(* split, percent-decoding, str()) are operators on token sequences.       *)
(***************************************************************************)
EXTENDS Integers, Sequences, FiniteSets, TLC

VARIABLES
    m_pc,       \* merge_query_to_url harness: "ready" | "merged" | "again"
    m_url,      \* url argument of merge_query_to_url (tokens)
    m_query,    \* query_dict argument (a dict: its items)
    m_out,      \* outcome of merge_query_to_url
    m_again,    \* outcome of merging m_query into the url of m_out
    pc,         \* position of the mcp_http_request invocation
    args,       \* its arguments
    hs,         \* the merged header dict (local of mcp_http_request)
    request,    \* the prepared outbound request (local of http_request)
    sent,       \* the requests handed to urlopen in this invocation
    answer,     \* what the network answered
    response,   \* the Response built by http_request
    error,      \* the exception in flight
    raisedAt,   \* where it was raised: "none" | "validation" | "dispatch" | "render"
    result,     \* what mcp_http_request gave its caller
    f_pc,       \* format_error_result harness: "ready" | "formatted"
    f_error,    \* its argument
    f_out,      \* the string it returned
    c_pc,       \* concurrent invocations: position of each
    c_args,     \* arguments of each
    c_answer,   \* the network's answer to each
    c_hs,       \* the local hs of each call frame
    c_response, \* the local response of each call frame
    c_error,    \* the exception caught in each call frame
    c_result,   \* what each invocation returned
    s_pc,       \* the server process: "start" | "serving" | "exited" | "failed"
    s_opts,     \* the command-line options main was started with
    s_ua,       \* ua, resolved once by create_mcp_server
    s_calls,    \* tool calls served so far
    t_pc,       \* fetch_to_file: "idle" | "fetch" | "write" | "returned"
    t_args,     \* its arguments
    t_path,     \* its local file_path after os.path.abspath
    t_content,  \* its local content
    t_answer,   \* what the network answered to its request
    t_result,   \* what the tool returned
    net,        \* number of requests the tool call issued
    dirs,       \* the directories os.makedirs created
    files       \* the files written, each with its path and content

mvars == <<m_pc, m_url, m_query, m_out, m_again>>

pvars == <<pc, args, hs, request, sent, answer, response, error, raisedAt, result>>

fvars == <<f_pc, f_error, f_out>>

cvars == <<c_pc, c_args, c_answer, c_hs, c_response, c_error, c_result>>

svars == <<s_pc, s_opts, s_ua, s_calls, t_pc, t_args, t_path, t_content, t_answer,
           t_result, net, dirs, files>>

vars == <<m_pc, m_url, m_query, m_out, m_again,
          pc, args, hs, request, sent, answer, response, error, raisedAt, result,
          f_pc, f_error, f_out,
          c_pc, c_args, c_answer, c_hs, c_response, c_error, c_result,
          s_pc, s_opts, s_ua, s_calls, t_pc, t_args, t_path, t_content, t_answer,
          t_result, net, dirs, files>>

CRLF == "CRLF"

----------------------------------------------------------------------------
(* Generic helpers on token sequences *)

StartsWith(s, p) ==
    /\ Len(p) <= Len(s)
    /\ SubSeq(s, 1, Len(p)) = p

Range(s) == {s[i] : i \in 1..Len(s)}

\* index of the first occurrence of token t in s, 0 when absent
FirstIndex(s, t) ==
    IF t \in Range(s)
        THEN CHOOSE i \in 1..Len(s) : s[i] = t /\ \A j \in 1..(i-1) : s[j] # t
        ELSE 0

\* str.split(sep): the pieces of s between occurrences of the token sep
RECURSIVE Split(_, _)
Split(s, sep) ==
    LET i == FirstIndex(s, sep)
    IN IF i = 0 THEN <<s>>
       ELSE <<SubSeq(s, 1, i-1)>> \o Split(SubSeq(s, i+1, Len(s)), sep)

\* sep.join(parts)
RECURSIVE Join(_, _)
Join(parts, sep) ==
    IF Len(parts) = 0 THEN <<>>
    ELSE IF Len(parts) = 1 THEN parts[1]
    ELSE parts[1] \o sep \o Join(Tail(parts), sep)

\* all orderings (sequences without repetition) of a finite set
RECURSIVE Perms(_)
Perms(S) ==
    IF S = {} THEN {<<>>}
    ELSE UNION {{<<x>> \o p : p \in Perms(S \ {x})} : x \in S}

----------------------------------------------------------------------------
(* urllib.parse as used by merge_query_to_url *)

SchemeTokens == {"http://", "https://", "HTTP://"}

\* urlparse lower-cases the scheme
LowerScheme(t) == IF t = "HTTP://" THEN "http://" ELSE t

\* urllib.parse.unquote on one token of a query string ("+" is a space)
Unquote(t) ==
    CASE t = "%32" -> "2"
      [] t = "%31" -> "1"
      [] t = "+"   -> " "
      [] OTHER     -> t

\* urllib.parse.quote_plus on one token
QuotePlus(t) ==
    CASE t = " " -> "+"
      [] OTHER   -> t

UnquoteSeq(s) == [i \in 1..Len(s) |-> Unquote(s[i])]

QuotePlusSeq(s) == [i \in 1..Len(s) |-> QuotePlus(s[i])]

\* urlparse(url): split off the fragment at the first "#", the query at the
\* first "?", and the scheme prefix; the rest is netloc and path together.
urlparse(url) ==
    LET h     == FirstIndex(url, "#")
        nofr  == IF h = 0 THEN url ELSE SubSeq(url, 1, h-1)
        frag  == IF h = 0 THEN <<>> ELSE SubSeq(url, h+1, Len(url))
        q     == FirstIndex(nofr, "?")
        noq   == IF q = 0 THEN nofr ELSE SubSeq(nofr, 1, q-1)
        query == IF q = 0 THEN <<>> ELSE SubSeq(nofr, q+1, Len(nofr))
        hasS  == Len(noq) > 0 /\ noq[1] \in SchemeTokens
    IN [scheme   |-> IF hasS THEN <<LowerScheme(noq[1])>> ELSE <<>>,
        locpath  |-> IF hasS THEN Tail(noq) ELSE noq,
        query    |-> query,
        fragment |-> frag]

\* urlunparse: an empty query or fragment is written without its delimiter
urlunparse(p) ==
    p.scheme \o p.locpath
      \o (IF p.query = <<>> THEN <<>> ELSE <<"?">> \o p.query)
      \o (IF p.fragment = <<>> THEN <<>> ELSE <<"#">> \o p.fragment)

\* one "name=value" field of a query string -> the set holding its decoded
\* pair, or the empty set when parse_qsl skips the field
ParseField(f, keep_blank_values) ==
    LET e     == FirstIndex(f, "=")
        name  == IF e = 0 THEN f ELSE SubSeq(f, 1, e-1)
        value == IF e = 0 THEN <<>> ELSE SubSeq(f, e+1, Len(f))
    IN IF f = <<>> THEN {}
       ELSE IF e = 0 /\ ~keep_blank_values THEN {}
       ELSE IF Len(value) > 0 \/ keep_blank_values
            THEN {<<UnquoteSeq(name), UnquoteSeq(value)>>}
       ELSE {}

\* parse_qsl(qs, keep_blank_values): the decoded (name, value) pairs, in order
RECURSIVE ParseFields(_, _)
ParseFields(fs, keep) ==
    IF Len(fs) = 0 THEN <<>>
    ELSE LET one == ParseField(fs[1], keep)
         IN (IF one = {} THEN <<>> ELSE <<CHOOSE x \in one : TRUE>>)
              \o ParseFields(Tail(fs), keep)

parse_qsl_keep(qs, keep) == ParseFields(Split(qs, "&"), keep)

\* parse_qsl(qs) as the code calls it: keep_blank_values defaults to False
parse_qsl(qs) == parse_qsl_keep(qs, FALSE)

\* a query value: its Python type and its str() as tokens
StrVal(s)   == [t |-> "str",   s |-> s]
IntVal(s)   == [t |-> "int",   s |-> s]
FloatVal(s) == [t |-> "float", s |-> s]
OtherVal    == [t |-> "list",  s |-> <<"[1]">>]

\* urlencode writing repr(v) instead of str(v): a str value gains quotes
urlencodeRepr(pairs) ==
    Join([i \in 1..Len(pairs) |->
             QuotePlusSeq(pairs[i][1]) \o <<"=">>
               \o (IF pairs[i][2].t = "str"
                     THEN <<"'">> \o QuotePlusSeq(pairs[i][2].s) \o <<"'">>
                     ELSE QuotePlusSeq(pairs[i][2].s))],
         <<"&">>)

\* urlencode(list of (key, value)): the fields quote_plus(str(k)) "=" quote_plus(str(v)),
\* joined by "&"
urlencode(pairs) ==
    Join([i \in 1..Len(pairs) |->
             QuotePlusSeq(pairs[i][1]) \o <<"=">> \o QuotePlusSeq(pairs[i][2].s)],
         <<"&">>)

----------------------------------------------------------------------------
(* The error taxonomy, request.py lines 41-59 *)

McpError(type, message) == [type |-> type, message |-> message, reason |-> <<>>]

ArgumentError(message) == McpError("ArgumentError", message)

RequestErrorAsArgumentError(message) == McpError("ArgumentError", message)

RequestError(message) == McpError("RequestError", message)

\* any exception that is not one of the three kinds
OtherError(type) == McpError(type, <<>>)

----------------------------------------------------------------------------
(* merge_query_to_url, request.py lines 62-85 *)

\* a dict argument: kind "dict" with its items(), a set of <<key, value>>
Dict(items) == [kind |-> "dict", items |-> items]

\* set(original_query): the pairs already in the url, their values strings
OriginalPairs(url) ==
    LET oq == parse_qsl(urlparse(url).query)
    IN {<<oq[i][1], StrVal(oq[i][2])>> : i \in 1..Len(oq)}

\* query_single after update(): a pair of the mapping is the same element as
\* a pair of the url only when key, type and value are all equal
QuerySingle(url, query_dict) == OriginalPairs(url) \cup query_dict.items

InvalidItems(query_dict) ==
    {it \in query_dict.items : it[2].t \notin {"str", "int", "float"}}

\* order: the iteration order of the set query_single, which Python leaves open
merge_query_to_url(url, query_dict, order) ==
    IF query_dict.kind # "dict"
        THEN [ok |-> FALSE, error |-> OtherError("AttributeError")]
    ELSE IF InvalidItems(query_dict) # {}
        THEN [ok |-> FALSE,
              error |-> ArgumentError(<<"invalid value for query parameter">>)]
    ELSE LET p == urlparse(url)
         IN [ok  |-> TRUE,
             url |-> urlunparse([p EXCEPT !.query = urlencode(order)])]

MergeOrders(url, query_dict) ==
    IF query_dict.kind = "dict" THEN Perms(QuerySingle(url, query_dict)) ELSE {<<>>}

----------------------------------------------------------------------------
(* Inputs of the merge_query_to_url harness *)

MaxFields == 1

Fields ==
    { <<"a", "=", "1">>, <<"b", "=", "2">>, <<"b", "=", "%32">>,
      <<"b", "=", "2.0">>, <<"a", "=">>, <<"a">> }

RECURSIVE FieldSeqs(_)
FieldSeqs(n) ==
    IF n = 0 THEN {<<>>}
    ELSE FieldSeqs(n-1)
           \cup {<<f>> \o fs : f \in Fields, fs \in {x \in FieldSeqs(n-1) : Len(x) = n-1}}

QueryStrings == {Join(fs, <<"&">>) : fs \in FieldSeqs(MaxFields)}

MergeUrls ==
    {pre \o <<"example.com", "/x">> \o qs \o fr :
        pre \in {<<>>, <<"HTTP://">>},
        qs  \in {<<>>} \cup {<<"?">> \o q : q \in QueryStrings},
        fr  \in {<<>>, <<"#", "f">>}}

ValuesOf(k) ==
    IF k = <<"a">> THEN {StrVal(<<"1">>), StrVal(<<>>)}
    ELSE {StrVal(<<"2">>), StrVal(<<"3">>), IntVal(<<"2">>), FloatVal(<<"2.0">>), OtherVal}

QueryKeys == {<<"a">>, <<"b">>}

\* the dicts over QueryKeys: one value per key
QueryDicts ==
    UNION {{Dict({<<k, f[k]>> : k \in K}) : f \in [K -> UNION {ValuesOf(k) : k \in K}]} :
              K \in SUBSET QueryKeys}

MergeQueries == {d \in QueryDicts : \A it \in d.items : it[2] \in ValuesOf(it[1])}

\* a local that holds nothing yet
Null == [kind |-> "null"]

\* the pipeline at rest: no invocation in progress
PIdle ==
    /\ pc = "idle"
    /\ args = Null
    /\ hs = Null
    /\ request = Null
    /\ sent = <<>>
    /\ answer = Null
    /\ response = Null
    /\ error = Null
    /\ raisedAt = "none"
    /\ result = Null

\* the other harnesses at rest
MOff ==
    /\ m_pc = "off"
    /\ m_url = <<>>
    /\ m_query = Null
    /\ m_out = Null
    /\ m_again = Null

FOff ==
    /\ f_pc = "off"
    /\ f_error = Null
    /\ f_out = Null

COff ==
    /\ c_pc = Null
    /\ c_args = Null
    /\ c_answer = Null
    /\ c_hs = Null
    /\ c_response = Null
    /\ c_error = Null
    /\ c_result = Null

SOff ==
    /\ s_pc = "off"
    /\ s_opts = Null
    /\ s_ua = Null
    /\ s_calls = 0
    /\ t_pc = "idle"
    /\ t_args = Null
    /\ t_path = Null
    /\ t_content = Null
    /\ t_answer = Null
    /\ t_result = Null
    /\ net = 0
    /\ dirs = {}
    /\ files = {}

MInit ==
    /\ m_pc = "ready"
    /\ m_url \in MergeUrls
    /\ m_query \in MergeQueries
    /\ m_out = [ok |-> FALSE, error |-> OtherError("none")]
    /\ m_again = [ok |-> FALSE, error |-> OtherError("none")]
    /\ PIdle
    /\ FOff
    /\ COff
    /\ SOff

\* one call merge_query_to_url(m_url, m_query)
Merge ==
    /\ m_pc = "ready"
    /\ \E order \in MergeOrders(m_url, m_query) :
          m_out' = merge_query_to_url(m_url, m_query, order)
    /\ m_pc' = "merged"
    /\ UNCHANGED <<m_url, m_query, m_again>>
    /\ UNCHANGED <<pvars, fvars, cvars, svars>>

\* the same mapping merged into the url the first call returned
MergeAgain ==
    /\ m_pc = "merged"
    /\ m_out.ok
    /\ \E order \in MergeOrders(m_out.url, m_query) :
          m_again' = merge_query_to_url(m_out.url, m_query, order)
    /\ m_pc' = "again"
    /\ UNCHANGED <<m_url, m_query, m_out>>
    /\ UNCHANGED <<pvars, fvars, cvars, svars>>

MNext ==
    \/ Merge
    \/ MergeAgain

SpecMerge == MInit /\ [][MNext]_vars

----------------------------------------------------------------------------
(* Response, request.py lines 24-38 *)

\* str.lower() on the header names the model uses
Lower(name) ==
    CASE name = "Content-Type" -> "content-type"
      [] name = "User-Agent"   -> "user-agent"
      [] name = "X-A"          -> "x-a"
      [] OTHER                 -> name

Response(url, version, status_code, reason, headers, content) ==
    [kind |-> "Response", url |-> url, version |-> version,
     status_code |-> status_code, reason |-> reason,
     headers |-> headers, content |-> content]

\* Response.content_type: the value of the first Content-Type header
content_type(resp) ==
    LET hits == {i \in 1..Len(resp.headers) : Lower(resp.headers[i][1]) = "content-type"}
    IN IF hits = {} THEN <<"application/", "octet-stream">>
       ELSE resp.headers[CHOOSE i \in hits : \A j \in hits : i <= j][2]

ResponseError(resp, message) ==
    [type |-> "ResponseError", message |-> message, reason |-> <<>>, response |-> resp]

\* ResponseError(response, message, reason): the optional reason given
ResponseErrorWithReason(resp, message, reason) ==
    [type |-> "ResponseError", message |-> message, reason |-> reason, response |-> resp]

----------------------------------------------------------------------------
(* The Content Transformer, mcp_server_requests.utils (not among the sources) *)

NonVisible == {"<script>x</script>", "<style>s</style>"}

\* the attribute tokens of the model and the attribute each one sets
AttrTokens == {" id=i", " class=c", " href=u"}

AttrName(t) ==
    CASE t = " id=i"    -> "id"
      [] t = " class=c" -> "class"
      [] t = " href=u"  -> "href"
      [] OTHER          -> ""

TagTokens == {"<p", ">", "</p>"}

\* allowed_attrs: True (keep every attribute) or the names to keep
AllAttrs == [all |-> TRUE, names |-> {}]

OnlyAttrs(names) == [all |-> FALSE, names |-> names]

clean_html(content, allowed_attrs) ==
    SelectSeq(content,
              LAMBDA t : /\ t \notin NonVisible
                         /\ (t \in AttrTokens /\ ~allowed_attrs.all
                                => AttrName(t) \in allowed_attrs.names))

html_to_markdown(content) ==
    SelectSeq(content, LAMBDA t : t \notin NonVisible \cup AttrTokens \cup TagTokens)

----------------------------------------------------------------------------
(* format_response_result, request.py lines 170-222 *)

ReturnContents == {"raw", "basic_clean", "strict_clean", "markdown"}

StatusLine(version, status, reason) == <<version, " ", ToString(status), " ", reason>>

\* Transform applied to every text/ content type
TransformAnyText(ctype, content, return_content) ==
    IF StartsWith(ctype, <<"text/">>)
        THEN CASE return_content = "basic_clean"  -> clean_html(content, AllAttrs)
               [] return_content = "strict_clean" -> clean_html(content, OnlyAttrs({"id", "src", "href"}))
               [] return_content = "markdown"     -> html_to_markdown(content)
               [] OTHER                           -> content
        ELSE content

\* lines 203-211: the transform applies to text/html only
Transform(ctype, content, return_content) ==
    IF StartsWith(ctype, <<"text/", "html">>)
        THEN CASE return_content = "basic_clean"  -> clean_html(content, AllAttrs)
               [] return_content = "strict_clean" -> clean_html(content, OnlyAttrs({"id", "src", "href"}))
               [] return_content = "markdown"     -> html_to_markdown(content)
               [] OTHER                           -> content
        ELSE content

\* lines 213-222: the pieces and their "\r\n".join
Assemble(resp, format_headers, content) ==
    LET status_piece == StatusLine(resp.version, resp.status_code, resp.reason) \o <<CRLF>>
        header_str   == Join([i \in 1..Len(resp.headers) |->
                                 <<resp.headers[i][1], ": ">> \o resp.headers[i][2]],
                             <<CRLF>>)
        strs == <<status_piece>>
                  \o (IF format_headers THEN <<header_str>> ELSE <<>>)
                  \o << <<CRLF, CRLF>>, content \o <<CRLF>> >>
    IN Join(strs, <<CRLF>>)

RenderableOrImage(ctype) ==
    \/ StartsWith(ctype, <<"text/">>)
    \/ StartsWith(ctype, <<"application/", "json">>)
    \/ StartsWith(ctype, <<"image/">>)

\* line 187: the content types whose body is decoded as text
Renderable(ctype) ==
    StartsWith(ctype, <<"text/">>) \/ StartsWith(ctype, <<"application/", "json">>)

\* the outcome: [ok |-> TRUE, text] or [ok |-> FALSE, error]
format_response_result(resp, format_headers, return_content) ==
    LET ctype == content_type(resp)
    IN IF Renderable(ctype)
         THEN IF resp.content.utf8
                THEN [ok   |-> TRUE,
                      text |-> Assemble(resp, format_headers,
                                        Transform(ctype, resp.content.text, return_content))]
                ELSE [ok    |-> FALSE,
                      error |-> ResponseError(resp,
                                  <<"response content type is \"">> \o ctype
                                     \o <<"\", but not utf-8 encoded'">>)]
         ELSE [ok    |-> FALSE,
               error |-> ResponseError(resp,
                           <<"response content type is \"">> \o ctype
                              \o <<"\", cannot be converted to a string">>)]

----------------------------------------------------------------------------
(* format_error_result, request.py lines 225-247 *)

SyntheticStatus == <<"HTTP/1.1", " ", "500", " ", "MCP Service Internal Error">>

PlainHeader == <<"Content-Type: text/plain", CRLF, CRLF>>

\* format_error_result answering every error with the generic block
format_error_resultGeneric(e) ==
    SyntheticStatus \o <<CRLF>> \o PlainHeader
      \o <<"An unexpected error occurred in the MCP service.">>

format_error_result(e) ==
    CASE e.type = "ArgumentError" ->
           SyntheticStatus \o <<", invalid argument", CRLF>> \o PlainHeader
             \o <<"MCP service found an error while checking parameters:", CRLF>>
             \o e.message \o <<CRLF>>
      [] e.type = "RequestError" ->
           SyntheticStatus \o <<CRLF>> \o PlainHeader
             \o <<"the MCP service encountered an internal error when making a request, with the following error message:", CRLF>>
             \o e.message
      [] e.type = "ResponseError" ->
           StatusLine(e.response.version, e.response.status_code, e.response.reason)
             \o (IF e.reason # <<>> THEN <<", but ">> \o e.reason
                 ELSE <<", but there was an error when processing the response">>)
             \o <<CRLF>> \o PlainHeader
             \o <<"The request sent has successfully received a response, but an error occurred during the processing of the response. The error message is as follows:", CRLF>>
             \o e.message
      [] OTHER ->
           SyntheticStatus \o <<CRLF>> \o PlainHeader
             \o <<"An unexpected error occurred in the MCP service.">>

----------------------------------------------------------------------------
(* http_request, request.py lines 88-167 *)

HTTP_METHODS == {"GET", "POST", "PUT", "PATCH", "DELETE"}

\* str.upper() on the method spellings the model uses
Upper(m) ==
    CASE m = "get"   -> "GET"
      [] m = "post"  -> "POST"
      [] m = "Patch" -> "PATCH"
      [] m = "trace" -> "TRACE"
      [] OTHER       -> m

VERSION_MAP(v) ==
    CASE v = 10 -> "HTTP/1.0"
      [] v = 11 -> "HTTP/1.1"
      [] v = 20 -> "HTTP/2"
      [] OTHER  -> "HTTP/1.1"

NoneValue == [kind |-> "NoneType"]

\* lines 121-135: the body bytes, or the exception raised while building them
BodyBytes(data, json_) ==
    IF data.kind # "NoneType"
        THEN IF data.kind \notin {"str", "bytes", "bytearray"}
                THEN [ok |-> FALSE,
                      error |-> ArgumentError(<<"Data must be a string, bytes, or bytearray">>)]
             ELSE IF data.kind = "str" /\ ~data.encodable
                THEN [ok |-> FALSE, error |-> OtherError("UnicodeEncodeError")]
             ELSE [ok |-> TRUE, bytes |-> data.s]
    ELSE IF json_.kind # "NoneType"
        THEN IF json_.serializable
                THEN [ok |-> TRUE, bytes |-> json_.s]
                ELSE [ok |-> FALSE,
                      error |-> ArgumentError(<<"Failed to serialize JSON data">>)]
    ELSE [ok |-> TRUE, bytes |-> <<>>]

\* line 110: data and json_ are mutually exclusive
BothTruthy(data, json_) ==
    /\ data.kind # "NoneType"
    /\ (data.kind \in {"str", "bytes"} => data.s # <<>>)
    /\ json_.kind # "NoneType"
    /\ json_.s # <<"{}">>

BothSupplied(data, json_) == data.kind # "NoneType" /\ json_.kind # "NoneType"

\* lines 113-119: a failure of the merge that is no ArgumentError is wrapped
MergeStep(url, query, order) ==
    IF query.kind = "NoneType" THEN [ok |-> TRUE, url |-> url]
    ELSE LET r == merge_query_to_url(url, query, order)
         IN IF r.ok \/ r.error.type = "ArgumentError" THEN r
            ELSE [ok |-> FALSE,
                  error |-> ArgumentError(<<"Failed to splicing URL and query">>)]

NormalizeUrlNever(url) == url

\* lines 137-138
NormalizeUrl(url) ==
    IF ~StartsWith(url, <<"http://">>) /\ ~StartsWith(url, <<"https://">>)
        THEN <<"https://">> \o url
        ELSE url

\* str.capitalize() on the header names the model uses (urllib Request.add_header)
Capitalize(name) ==
    CASE name = "User-Agent" -> "User-agent"
      [] name = "user-agent" -> "User-agent"
      [] name = "X-A"        -> "X-a"
      [] OTHER               -> name

\* a dict as the sequence of its items in insertion order: d[k] = v
RECURSIVE DictSet(_, _, _)
DictSet(d, k, v) ==
    IF Len(d) = 0 THEN <<<<k, v>>>>
    ELSE IF d[1][1] = k THEN <<<<k, v>>>> \o Tail(d)
    ELSE <<d[1]>> \o DictSet(Tail(d), k, v)

DictHas(d, k) == \E i \in 1..Len(d) : d[i][1] = k

DictGet(d, k) == d[CHOOSE i \in 1..Len(d) : d[i][1] = k][2]

\* urllib.request.Request(headers=...): add_header(key.capitalize(), value) per item
RECURSIVE RequestHeaders(_, _)
RequestHeaders(acc, d) ==
    IF Len(d) = 0 THEN acc
    ELSE RequestHeaders(DictSet(acc, Capitalize(d[1][1]), d[1][2]), Tail(d))

\* lines 97-141: everything up to the urlopen call. order is the iteration
\* order of the pair set inside merge_query_to_url.
PrepareRequest(method, url, query, data, json_, headers, order) ==
    IF method.kind # "str"
        THEN [ok |-> FALSE,
              error |-> ArgumentError(<<"http method must be a string">>)]
    ELSE IF Upper(method.s) \notin HTTP_METHODS
        THEN [ok |-> FALSE, error |-> ArgumentError(<<"Invalid HTTP method: ", method.s>>)]
    ELSE IF url.kind # "str"
        THEN [ok |-> FALSE, error |-> ArgumentError(<<"URL must be a string">>)]
    ELSE IF BothSupplied(data, json_)
        THEN [ok |-> FALSE,
              error |-> ArgumentError(<<"Both data and json cannot be provided at the same time">>)]
    ELSE LET merged == MergeStep(url.s, query, order)
         IN IF ~merged.ok THEN merged
            ELSE LET body == BodyBytes(data, json_)
                 IN IF ~body.ok THEN body
                    ELSE [ok |-> TRUE,
                          request |-> [method  |-> Upper(method.s),
                                       url     |-> NormalizeUrl(merged.url),
                                       headers |-> RequestHeaders(<<>>, headers),
                                       data    |-> body.bytes]]

PrepareOrders(url, query) ==
    IF url.kind = "str" /\ query.kind = "dict" THEN MergeOrders(url.s, query) ELSE {<<>>}

\* [kind "Response", ...] returned, or [kind "raise", error]
Raise(e) == [kind |-> "raise", error |-> e]

\* HandleAnswer with every HTTPError treated as a transport failure
HandleAnswerHttpErrorFails(url, ans) ==
    CASE ans.kind = "response" ->
           Response(url, VERSION_MAP(ans.version), ans.status, ans.reason,
                    ans.headers, ans.body)
      [] ans.kind = "http_error" ->
           Raise(RequestError(<<"Failed to send request, ", ans.reason>>))
      [] OTHER ->
           Raise(RequestError(<<"Failed to send request, ", ans.reason>>))

\* lines 142-165: what http_request makes of the network's answer

HandleAnswer(url, ans) ==
    CASE ans.kind = "response" ->
           Response(url, VERSION_MAP(ans.version), ans.status, ans.reason,
                    ans.headers, ans.body)
      [] ans.kind = "http_error" ->
           IF ~ans.has_status
               THEN Raise(RequestError(<<"Failed to send request, unknown error">>))
           ELSE IF ~ans.readable
               THEN Raise(OtherError("ConnectionResetError"))
           ELSE Response(url, "HTTP/1.1", ans.status, ans.reason, ans.headers, ans.body)
      [] ans.kind = "url_error" ->
           Raise(RequestError(<<"Failed to send request, ", ans.reason>>))
      [] OTHER ->
           Raise(RequestError(<<"Failed to send request, ", ans.reason>>))

----------------------------------------------------------------------------
(* mcp_http_request, request.py lines 251-287 *)

Str(s) == [kind |-> "str", s |-> s]

Bool(b) == [kind |-> "bool", b |-> b]

IntArg(n) == [kind |-> "int", n |-> n]

\* a header dict: its items in insertion order
HeaderDict(items) == [kind |-> "dict", items |-> items]

\* Python truth value of headers, user_agent or force_user_agnet
Truthy(v) ==
    CASE v.kind = "NoneType" -> FALSE
      [] v.kind = "dict"     -> Len(v.items) > 0
      [] v.kind = "str"      -> v.s # ""
      [] v.kind = "bool"     -> v.b
      [] v.kind = "int"      -> v.n # 0
      [] OTHER               -> TRUE

\* lines 269-274: the User-Agent policy
ApplyUserAgent(h, user_agent, force_user_agnet) ==
    IF Truthy(force_user_agnet)
        THEN IF Truthy(user_agent) THEN DictSet(h, "User-Agent", user_agent.s) ELSE h
        ELSE IF ~DictHas(h, "User-Agent") /\ Truthy(user_agent)
                THEN DictSet(h, "User-Agent", user_agent.s)
                ELSE h

\* lines 264-274: [ok |-> TRUE, hs] or the exception dict.update raises
MergedHeaders(headers, user_agent, force_user_agnet) ==
    IF Truthy(headers) /\ headers.kind # "dict"
        THEN [ok |-> FALSE, error |-> OtherError("TypeError")]
        ELSE [ok |-> TRUE,
              hs |-> ApplyUserAgent(IF Truthy(headers) THEN headers.items ELSE <<>>,
                                    user_agent, force_user_agnet)]

\* lines 251-287 as one function of the arguments, the network's answer and
\* the iteration order of the pair set: [kind "str", text] when a string is
\* returned, [kind "raised", error] when an exception reaches the caller
mcp_http_request(a, ans, order) ==
    LET mh == MergedHeaders(a.headers, a.user_agent, a.force_user_agnet)
    IN IF ~mh.ok THEN [kind |-> "raised", error |-> mh.error]
       ELSE LET pr == PrepareRequest(a.method, a.url, a.query, a.data, a.json, mh.hs, order)
            IN IF ~pr.ok THEN [kind |-> "str", text |-> format_error_result(pr.error)]
               ELSE LET r == HandleAnswer(pr.request.url, ans)
                    IN IF r.kind # "Response"
                         THEN [kind |-> "str", text |-> format_error_result(r.error)]
                         ELSE LET f == format_response_result(r, a.format_headers,
                                                              a.return_content)
                              IN IF f.ok THEN [kind |-> "str", text |-> f.text]
                                 ELSE [kind |-> "str",
                                       text |-> format_error_result(f.error)]

----------------------------------------------------------------------------
(* The arguments and network answers the model draws from *)

Methods == {Str("GET"), Str("post"), Str("trace"), IntArg(5)}

Urls ==
    { Str(<<"example.com", "/x", "?", "b", "=", "2">>),
      Str(<<"http://", "example.com", "/x">>),
      IntArg(5) }

Queries ==
    { NoneValue,
      Dict({<<<<"b">>, IntVal(<<"2">>)>>}),
      Dict({<<<<"b">>, OtherVal>>}),
      IntArg(5) }

\* a str that cannot be encoded as UTF-8 holds a lone surrogate
Datas ==
    { NoneValue,
      [kind |-> "str",   s |-> <<>>,         encodable |-> TRUE],
      [kind |-> "str",   s |-> <<"\\udcff">>, encodable |-> FALSE],
      [kind |-> "bytes", s |-> <<"d">>,      encodable |-> TRUE],
      IntArg(5) }

Jsons ==
    { NoneValue,
      [kind |-> "dict", s |-> <<"{}">>, serializable |-> TRUE],
      [kind |-> "dict", s |-> <<>>,     serializable |-> FALSE] }

HeaderArgs ==
    { NoneValue,
      HeaderDict(<< <<"User-Agent", "caller-UA">> >>),
      HeaderDict(<< <<"user-agent", "caller-UA">> >>),
      HeaderDict(<< <<"User-Agent", "caller-UA">>, <<"user-agent", "caller-UA-2">> >>),
      IntArg(5) }

UserAgents == {NoneValue, Str("provider-UA")}

Forces == {NoneValue, Bool(TRUE)}

CallArgs ==
    [method : Methods, url : Urls, query : Queries, data : Datas, json : Jsons,
     headers : HeaderArgs, user_agent : UserAgents, force_user_agnet : Forces,
     format_headers : BOOLEAN, return_content : ReturnContents]

HtmlBody == <<"<p", " class=c", " id=i", ">", "hi", "</p>", "<script>x</script>">>

JsonBody == <<"{\"e\":1}">>

Utf8(text) == [utf8 |-> TRUE, text |-> text]

\* bytes that are not valid UTF-8
NotUtf8 == [utf8 |-> FALSE, text |-> <<"\\xff">>]

CT(name, value) == <<name, value>>

AnswerHeaders ==
    { <<>>,
      << CT("content-type", <<"text/", "html", "; charset=utf-8">>) >>,
      << CT("Content-Type", <<"application/", "json">>), CT("X-A", <<"1">>) >>,
      << CT("Content-Type", <<"text/", "plain">>) >>,
      << CT("Content-Type", <<"image/", "png">>) >> }

AnswerBodies == {Utf8(HtmlBody), Utf8(JsonBody), NotUtf8}

\* what urlopen can do: return a response, raise HTTPError (with or without a
\* status, its body readable or not), raise URLError, raise anything else
NetAnswers ==
    {[kind |-> "response", version |-> 11, status |-> 200, reason |-> "OK",
      headers |-> h, body |-> b] : h \in AnswerHeaders, b \in AnswerBodies}
    \cup
    {[kind |-> "http_error", has_status |-> TRUE, readable |-> TRUE, status |-> 404,
      reason |-> "Not Found", headers |-> h, body |-> b] :
         h \in AnswerHeaders, b \in AnswerBodies}
    \cup
    {[kind |-> "response", version |-> 20, status |-> 200, reason |-> "OK",
      headers |-> <<>>, body |-> Utf8(JsonBody)],
     [kind |-> "http_error", has_status |-> TRUE, readable |-> FALSE, status |-> 500,
      reason |-> "Internal Server Error", headers |-> <<>>, body |-> NotUtf8],
     [kind |-> "http_error", has_status |-> FALSE, readable |-> TRUE, status |-> 0,
      reason |-> "", headers |-> <<>>, body |-> NotUtf8],
     [kind |-> "url_error", reason |-> "Connection refused"],
     [kind |-> "exception", reason |-> "timed out"]}

----------------------------------------------------------------------------
(* format_error_result applied to every kind of error *)

ErrorResponses ==
    {Response(<<"http://", "example.com", "/x">>, v, st[1], st[2], h, b) :
        v  \in {"HTTP/1.0", "HTTP/1.1", "HTTP/2"},
        st \in {<<200, "OK">>, <<404, "Not Found">>},
        h  \in {<<>>, << CT("Content-Type", <<"image/", "png">>) >>},
        b  \in {Utf8(JsonBody), NotUtf8}}

ErrorMessages == {<<"URL must be a string">>, <<"Failed to send request, ", "timed out">>}

\* the reason of a ResponseError: None or "" (both <<>>), or a text
ErrorReasons == {<<>>, <<"not utf-8 encoded">>}

ErrorValues ==
    {ArgumentError(m) : m \in ErrorMessages}
    \cup {RequestError(m) : m \in ErrorMessages}
    \cup {ResponseErrorWithReason(r, m, why) :
             r \in ErrorResponses, m \in ErrorMessages, why \in ErrorReasons}
    \cup {OtherError(t) : t \in {"TypeError", "UnicodeEncodeError", "ConnectionResetError"}}

FInit ==
    /\ f_pc = "ready"
    /\ f_error \in ErrorValues
    /\ f_out = Null
    /\ PIdle
    /\ MOff
    /\ COff
    /\ SOff

\* one call format_error_result(f_error)
FormatErrorCall ==
    /\ f_pc = "ready"
    /\ f_out' = [kind |-> "str", text |-> format_error_result(f_error)]
    /\ f_pc' = "formatted"
    /\ UNCHANGED f_error
    /\ UNCHANGED <<mvars, pvars, cvars, svars>>

FNext == FormatErrorCall

SpecFormatError == FInit /\ [][FNext]_vars

----------------------------------------------------------------------------
(* One invocation of mcp_http_request, step by step *)

Init ==
    /\ PIdle
    /\ MOff
    /\ FOff
    /\ COff
    /\ SOff

\* the caller invokes mcp_http_request with arguments drawn from CallArgs
Call ==
    /\ pc = "idle"
    /\ \E a \in CallArgs : args' = a
    /\ pc' = "merge_headers"
    /\ UNCHANGED <<hs, request, sent, answer, response, error, raisedAt, result>>
    /\ UNCHANGED <<mvars, fvars, cvars, svars>>

\* lines 264-274; an exception here is outside the try and reaches the caller
MergeHeaders ==
    /\ pc = "merge_headers"
    /\ LET r == MergedHeaders(args.headers, args.user_agent, args.force_user_agnet)
       IN IF r.ok
            THEN /\ hs' = r.hs
                 /\ pc' = "http_request"
                 /\ UNCHANGED <<error, result>>
            ELSE /\ error' = r.error
                 /\ result' = [kind |-> "raised", error |-> r.error]
                 /\ pc' = "done"
                 /\ UNCHANGED hs
    /\ UNCHANGED <<args, request, sent, answer, response, raisedAt>>
    /\ UNCHANGED <<mvars, fvars, cvars, svars>>

\* http_request lines 97-141: validation, query merge, body, url normalization
Validate ==
    /\ pc = "http_request"
    /\ \E order \in PrepareOrders(args.url, args.query) :
         LET r == PrepareRequest(args.method, args.url, args.query, args.data,
                                 args.json, hs, order)
         IN IF r.ok
              THEN /\ request' = r.request
                   /\ pc' = "dispatch"
                   /\ UNCHANGED <<error, raisedAt>>
              ELSE /\ error' = r.error
                   /\ raisedAt' = "validation"
                   /\ pc' = "except"
                   /\ UNCHANGED request
    /\ UNCHANGED <<args, hs, sent, answer, response, result>>
    /\ UNCHANGED <<mvars, fvars, cvars, svars>>

\* http_request lines 142-167: the urlopen call and what comes back
Dispatch ==
    /\ pc = "dispatch"
    /\ \E ans \in NetAnswers :
         LET r == HandleAnswer(request.url, ans)
         IN /\ answer' = ans
            /\ sent' = Append(sent, request)
            /\ IF r.kind = "Response"
                 THEN /\ response' = r
                      /\ pc' = "format"
                      /\ UNCHANGED <<error, raisedAt>>
                 ELSE /\ error' = r.error
                      /\ raisedAt' = "dispatch"
                      /\ pc' = "except"
                      /\ UNCHANGED response
    /\ UNCHANGED <<args, hs, request, result>>
    /\ UNCHANGED <<mvars, fvars, cvars, svars>>

\* line 285: format_response_result
Format ==
    /\ pc = "format"
    /\ LET r == format_response_result(response, args.format_headers, args.return_content)
       IN IF r.ok
            THEN /\ result' = [kind |-> "str", text |-> r.text]
                 /\ pc' = "done"
                 /\ UNCHANGED <<error, raisedAt>>
            ELSE /\ error' = r.error
                 /\ raisedAt' = "render"
                 /\ pc' = "except"
                 /\ UNCHANGED result
    /\ UNCHANGED <<args, hs, request, sent, answer, response>>
    /\ UNCHANGED <<mvars, fvars, cvars, svars>>

\* lines 286-287: except Exception as e: return format_error_result(e)
FormatError ==
    /\ pc = "except"
    /\ result' = [kind |-> "str", text |-> format_error_result(error)]
    /\ pc' = "done"
    /\ UNCHANGED <<args, hs, request, sent, answer, response, error, raisedAt>>
    /\ UNCHANGED <<mvars, fvars, cvars, svars>>

\* the invocation is over; its locals are gone
Return ==
    /\ pc = "done"
    /\ pc' = "idle"
    /\ args' = Null
    /\ hs' = Null
    /\ request' = Null
    /\ sent' = <<>>
    /\ answer' = Null
    /\ response' = Null
    /\ error' = Null
    /\ raisedAt' = "none"
    /\ result' = Null
    /\ UNCHANGED <<mvars, fvars, cvars, svars>>

Next ==
    \/ Call
    \/ MergeHeaders
    \/ Validate
    \/ Dispatch
    \/ Format
    \/ FormatError
    \/ Return

Spec == Init /\ [][Next]_vars

----------------------------------------------------------------------------
(* Concurrent invocations of mcp_http_request *)

NProcs == 2

Procs == 1..NProcs

\* all invocations sharing one place for their locals
FrameOfShared(p) == 1

\* the frame holding the locals of invocation p: every call has its own
FrameOf(p) == p

CArgs ==
    [method : {Str("GET"), Str("trace")},
     url : {Str(<<"http://", "example.com", "/x">>)},
     query : {NoneValue}, data : {NoneValue}, json : {NoneValue},
     headers : {NoneValue, HeaderDict(<< <<"User-Agent", "caller-UA">> >>)},
     user_agent : {Str("provider-UA")}, force_user_agnet : {NoneValue},
     format_headers : {TRUE}, return_content : {"raw", "markdown"}]

CAnswers ==
    {[kind |-> "response", version |-> 11, status |-> 200, reason |-> "OK",
      headers |-> << CT("content-type", <<"text/", "html", "; charset=utf-8">>) >>,
      body |-> Utf8(HtmlBody)],
     [kind |-> "http_error", has_status |-> TRUE, readable |-> TRUE, status |-> 404,
      reason |-> "Not Found", headers |-> << CT("Content-Type", <<"image/", "png">>) >>,
      body |-> Utf8(JsonBody)],
     [kind |-> "url_error", reason |-> "Connection refused"]}

CInit ==
    /\ c_pc = [p \in Procs |-> "idle"]
    /\ c_args = [p \in Procs |-> Null]
    /\ c_answer = [p \in Procs |-> Null]
    /\ c_hs = [p \in Procs |-> Null]
    /\ c_response = [p \in Procs |-> Null]
    /\ c_error = [p \in Procs |-> Null]
    /\ c_result = [p \in Procs |-> Null]
    /\ PIdle
    /\ MOff
    /\ FOff
    /\ SOff

\* invocation p starts
CCall(p) ==
    /\ c_pc[p] = "idle"
    /\ \E a \in CArgs : c_args' = [c_args EXCEPT ![p] = a]
    /\ c_pc' = [c_pc EXCEPT ![p] = "merge_headers"]
    /\ UNCHANGED <<c_answer, c_hs, c_response, c_error, c_result>>
    /\ UNCHANGED <<mvars, pvars, fvars, svars>>

\* lines 264-274 of invocation p: hs is built in its frame
CMergeHeaders(p) ==
    /\ c_pc[p] = "merge_headers"
    /\ LET r == MergedHeaders(c_args[p].headers, c_args[p].user_agent,
                              c_args[p].force_user_agnet)
       IN IF r.ok
            THEN /\ c_hs' = [c_hs EXCEPT ![FrameOf(p)] = r.hs]
                 /\ c_pc' = [c_pc EXCEPT ![p] = "http_request"]
                 /\ UNCHANGED c_result
            ELSE /\ c_result' = [c_result EXCEPT ![p] = [kind |-> "raised", error |-> r.error]]
                 /\ c_pc' = [c_pc EXCEPT ![p] = "done"]
                 /\ UNCHANGED c_hs
    /\ UNCHANGED <<c_args, c_answer, c_response, c_error>>
    /\ UNCHANGED <<mvars, pvars, fvars, svars>>

\* lines 277-283 of invocation p: http_request with the hs of its frame
CHttpRequest(p) ==
    /\ c_pc[p] = "http_request"
    /\ LET a  == c_args[p]
           pr == PrepareRequest(a.method, a.url, a.query, a.data, a.json,
                                c_hs[FrameOf(p)], <<>>)
       IN IF ~pr.ok
            THEN /\ c_error' = [c_error EXCEPT ![FrameOf(p)] = pr.error]
                 /\ c_pc' = [c_pc EXCEPT ![p] = "except"]
                 /\ UNCHANGED <<c_answer, c_response>>
            ELSE \E ans \in CAnswers :
                   LET r == HandleAnswer(pr.request.url, ans)
                   IN /\ c_answer' = [c_answer EXCEPT ![p] = ans]
                      /\ IF r.kind = "Response"
                           THEN /\ c_response' = [c_response EXCEPT ![FrameOf(p)] = r]
                                /\ c_pc' = [c_pc EXCEPT ![p] = "format"]
                                /\ UNCHANGED c_error
                           ELSE /\ c_error' = [c_error EXCEPT ![FrameOf(p)] = r.error]
                                /\ c_pc' = [c_pc EXCEPT ![p] = "except"]
                                /\ UNCHANGED c_response
    /\ UNCHANGED <<c_args, c_hs, c_result>>
    /\ UNCHANGED <<mvars, pvars, fvars, svars>>

\* line 285 of invocation p
CFormat(p) ==
    /\ c_pc[p] = "format"
    /\ LET r == format_response_result(c_response[FrameOf(p)], c_args[p].format_headers,
                                       c_args[p].return_content)
       IN IF r.ok
            THEN /\ c_result' = [c_result EXCEPT ![p] = [kind |-> "str", text |-> r.text]]
                 /\ c_pc' = [c_pc EXCEPT ![p] = "done"]
                 /\ UNCHANGED c_error
            ELSE /\ c_error' = [c_error EXCEPT ![FrameOf(p)] = r.error]
                 /\ c_pc' = [c_pc EXCEPT ![p] = "except"]
                 /\ UNCHANGED c_result
    /\ UNCHANGED <<c_args, c_answer, c_hs, c_response>>
    /\ UNCHANGED <<mvars, pvars, fvars, svars>>

\* lines 286-287 of invocation p
CFormatError(p) ==
    /\ c_pc[p] = "except"
    /\ c_result' = [c_result EXCEPT ![p] =
                       [kind |-> "str", text |-> format_error_result(c_error[FrameOf(p)])]]
    /\ c_pc' = [c_pc EXCEPT ![p] = "done"]
    /\ UNCHANGED <<c_args, c_answer, c_hs, c_response, c_error>>
    /\ UNCHANGED <<mvars, pvars, fvars, svars>>

CNext ==
    \E p \in Procs :
        \/ CCall(p)
        \/ CMergeHeaders(p)
        \/ CHttpRequest(p)
        \/ CFormat(p)
        \/ CFormatError(p)

SpecConcurrent == CInit /\ [][CNext]_vars

----------------------------------------------------------------------------
(* The server process of __main__.py: main, get_user_agent, fetch_to_file *)

MaxCalls == 1

DefaultUserAgent == "Mozilla/5.0 (compatible; mcp-server-requests/<version>)"

\* what random_ua can select
RandomUserAgents == {"random-UA-1", "random-UA-2"}

\* the value click gives a boolean flag option: True when the flag is on the
\* command line, the option's default otherwise
FlagValue(given, default) == IF given THEN Bool(TRUE) ELSE default

\* the command line: --user-agent VALUE, and which flags are given
CliOptions ==
    [user_agent : {NoneValue, Str("cli-UA")},
     random_user_agent : BOOLEAN,
     force_user_agent : BOOLEAN,
     list_os_and_browser : BOOLEAN,
     subcommand : BOOLEAN]

\* get_user_agent, lines 13-28: the outcomes, random_ua being a free choice
\* that may also find nothing
get_user_agent(ua, ua_random) ==
    IF ~Truthy(ua) /\ ua_random
        THEN {[ok |-> TRUE, ua |-> Str(u)] : u \in RandomUserAgents}
               \cup {[ok |-> FALSE, error |-> OtherError("RuntimeError")]}
    ELSE IF ~Truthy(ua)
        THEN {[ok |-> TRUE, ua |-> Str(DefaultUserAgent)]}
    ELSE {[ok |-> TRUE, ua |-> ua]}

\* main, lines 283-287: ua_random is set only for a str option value
UaRandom(random_user_agent) == random_user_agent.kind = "str"

SInit ==
    /\ s_pc = "start"
    /\ s_opts \in CliOptions
    /\ s_ua = Null
    /\ s_calls = 0
    /\ t_pc = "idle"
    /\ t_args = Null
    /\ t_path = Null
    /\ t_content = Null
    /\ t_answer = Null
    /\ t_result = Null
    /\ net = 0
    /\ dirs = {}
    /\ files = {}
    /\ PIdle
    /\ MOff
    /\ FOff
    /\ COff

\* main, lines 256-296, up to mcp.run()
Main ==
    /\ s_pc = "start"
    /\ LET o == s_opts
           random_user_agent == FlagValue(o.random_user_agent, NoneValue)
       IN IF o.list_os_and_browser /\ o.subcommand
            THEN s_pc' = "failed" /\ UNCHANGED s_ua
          ELSE IF Truthy(o.user_agent) /\ Truthy(random_user_agent)
            THEN s_pc' = "failed" /\ UNCHANGED s_ua
          ELSE IF o.list_os_and_browser
            THEN s_pc' = "exited" /\ UNCHANGED s_ua
          ELSE IF o.subcommand
            THEN s_pc' = "subcommand" /\ UNCHANGED s_ua
          ELSE \E r \in get_user_agent(o.user_agent, UaRandom(random_user_agent)) :
                 IF r.ok
                   THEN s_ua' = r.ua /\ s_pc' = "serving"
                   ELSE s_pc' = "failed" /\ UNCHANGED s_ua
    /\ UNCHANGED <<s_opts, s_calls, t_pc, t_args, t_path, t_content, t_answer, t_result,
                   net, dirs, files>>
    /\ UNCHANGED <<mvars, pvars, fvars, cvars>>

\* a path: the number of leading slashes (0 for a relative path) and its
\* components
Path(lead, parts) == [lead |-> lead, parts |-> parts]

\* the path as text
PathText(p) ==
    (IF p.lead = 0 THEN <<>> ELSE IF p.lead = 2 THEN <<"//">> ELSE <<"/">>)
      \o Join([i \in 1..Len(p.parts) |-> <<p.parts[i]>>], <<"/">>)

\* os.path.isabs accepting every path
isabsAny(p) == TRUE

\* os.path.isabs, line 110
isabs(p) == p.lead > 0

\* os.path.normpath on the components: "." dropped, ".." removes its parent
RECURSIVE NormParts(_, _)
NormParts(parts, acc) ==
    IF Len(parts) = 0 THEN acc
    ELSE IF parts[1] = "." THEN NormParts(Tail(parts), acc)
    ELSE IF parts[1] = ".."
        THEN NormParts(Tail(parts),
                       IF Len(acc) = 0 THEN acc ELSE SubSeq(acc, 1, Len(acc) - 1))
    ELSE NormParts(Tail(parts), Append(acc, parts[1]))

\* os.path.abspath of an absolute POSIX path: exactly two leading slashes stay
abspath(p) == Path(IF p.lead = 2 THEN 2 ELSE 1, NormParts(p.parts, <<>>))

dirname(p) == Path(p.lead, SubSeq(p.parts, 1, Len(p.parts) - 1))

\* lines 100-108 (the branch for os.name other than "nt")
protected_paths == <<"/etc", "/usr", "/bin", "/sbin", "/lib", "/root">>

\* the first components of the model's paths whose text starts with the name
\* of a protected path
NamePrefixes ==
    {<<"etc", "/etc">>, <<"usr", "/usr">>, <<"root", "/root">>, <<"rootfs", "/root">>}

\* file_path.startswith(protected), line 116
PathStartsWith(p, protected) ==
    /\ p.lead = 1
    /\ Len(p.parts) > 0
    /\ <<p.parts[1], protected>> \in NamePrefixes

\* lines 115-117: the first protected path the loop matches, "" when none
FirstProtected(p) ==
    LET hits == {i \in 1..Len(protected_paths) : PathStartsWith(p, protected_paths[i])}
    IN IF hits = {} THEN ""
       ELSE protected_paths[CHOOSE i \in hits : \A j \in hits : i <= j]

FtfPaths ==
    { Path(0, <<"out.txt">>),
      Path(1, <<"tmp", "out", "page.md">>),
      Path(1, <<"home", "etc", "x">>),
      Path(1, <<"etc", "passwd">>),
      Path(1, <<"tmp", "..", "etc", "cron.d">>),
      Path(1, <<"rootfs", "x">>),
      Path(2, <<"etc", "passwd">>) }

FtfArgs ==
    [url : {Str(<<"http://", "example.com", "/x">>)},
     file_path : FtfPaths,
     return_content : {"raw", "markdown"}]

\* lines 120-122: the arguments fetch_to_file gives mcp_http_request
ToolCallArgs(url, return_content) ==
    [method |-> Str("GET"), url |-> url, query |-> NoneValue, data |-> NoneValue,
     json |-> NoneValue, headers |-> NoneValue, user_agent |-> s_ua,
     force_user_agnet |-> FlagValue(s_opts.force_user_agent, Bool(FALSE)),
     format_headers |-> FALSE, return_content |-> return_content]

ToolAnswers ==
    {[kind |-> "response", version |-> 11, status |-> 200, reason |-> "OK",
      headers |-> << CT("content-type", <<"text/", "html", "; charset=utf-8">>) >>,
      body |-> Utf8(HtmlBody)],
     [kind |-> "response", version |-> 11, status |-> 200, reason |-> "OK",
      headers |-> << CT("Content-Type", <<"image/", "png">>) >>,
      body |-> NotUtf8],
     [kind |-> "response", version |-> 11, status |-> 200, reason |-> "OK",
      headers |-> << CT("Content-Type", <<"text/", "plain">>) >>,
      body |-> NotUtf8],
     [kind |-> "http_error", has_status |-> TRUE, readable |-> TRUE, status |-> 404,
      reason |-> "Not Found", headers |-> << CT("Content-Type", <<"application/", "json">>) >>,
      body |-> Utf8(JsonBody)],
     [kind |-> "url_error", reason |-> "Connection refused"]}

\* fetch_to_file is called; lines 92-117, the two path checks
FtfCheck ==
    /\ s_pc = "serving"
    /\ t_pc = "idle"
    /\ s_calls < MaxCalls
    /\ \E a \in FtfArgs :
         /\ t_args' = a
         /\ IF ~isabs(a.file_path)
              THEN /\ t_result' = [kind |-> "str",
                                   text |-> <<"Error: Path must be absolute: ">>
                                              \o PathText(a.file_path)]
                   /\ t_pc' = "returned"
                   /\ UNCHANGED t_path
              ELSE LET ap   == abspath(a.file_path)
                       prot == FirstProtected(ap)
                   IN /\ t_path' = ap
                      /\ IF prot # ""
                           THEN /\ t_result' = [kind |-> "str",
                                                text |-> <<"Error: Do not allow writing to protected paths: ",
                                                           prot>>]
                                /\ t_pc' = "returned"
                           ELSE /\ t_pc' = "fetch"
                                /\ UNCHANGED t_result
    /\ UNCHANGED <<s_pc, s_opts, s_ua, s_calls, t_content, t_answer, net, dirs, files>>
    /\ UNCHANGED <<mvars, pvars, fvars, cvars>>

\* lines 120-122: content = mcp_http_request("GET", url, ...)
FtfFetch ==
    /\ t_pc = "fetch"
    /\ \E ans \in ToolAnswers :
         /\ t_answer' = ans
         /\ t_content' = mcp_http_request(ToolCallArgs(t_args.url, t_args.return_content),
                                          ans, <<>>)
    /\ net' = net + 1
    /\ t_pc' = "write"
    /\ UNCHANGED <<s_pc, s_opts, s_ua, s_calls, t_args, t_path, t_result, dirs, files>>
    /\ UNCHANGED <<mvars, pvars, fvars, cvars>>

\* lines 125-129: makedirs, open and write, the success message; makedirs or
\* open may fail with OSError, which leaves the tool as an exception
FtfWrite ==
    /\ t_pc = "write"
    /\ \/ /\ dirs' = dirs \cup {dirname(t_path)}
          /\ files' = {f \in files : f.path # t_path}
                         \cup {[path |-> t_path, content |-> t_content.text]}
          /\ t_result' = [kind |-> "str",
                          text |-> <<"File written successfully to: ">> \o PathText(t_path)]
       \/ /\ dirs' = dirs \cup {dirname(t_path)}
          /\ t_result' = [kind |-> "raised", error |-> OtherError("OSError")]
          /\ UNCHANGED files
       \/ /\ t_result' = [kind |-> "raised", error |-> OtherError("OSError")]
          /\ UNCHANGED <<dirs, files>>
    /\ t_pc' = "returned"
    /\ UNCHANGED <<s_pc, s_opts, s_ua, s_calls, t_args, t_path, t_content, t_answer, net>>
    /\ UNCHANGED <<mvars, pvars, fvars, cvars>>

\* the tool call is over; its locals are gone, the file system stays
FtfReturn ==
    /\ t_pc = "returned"
    /\ t_pc' = "idle"
    /\ s_calls' = s_calls + 1
    /\ t_args' = Null
    /\ t_path' = Null
    /\ t_content' = Null
    /\ t_answer' = Null
    /\ t_result' = Null
    /\ net' = 0
    /\ UNCHANGED <<s_pc, s_opts, s_ua, dirs, files>>
    /\ UNCHANGED <<mvars, pvars, fvars, cvars>>

SNext ==
    \/ Main
    \/ FtfCheck
    \/ FtfFetch
    \/ FtfWrite
    \/ FtfReturn

SpecServer == SInit /\ [][SNext]_vars

----------------------------------------------------------------------------
(* Properties of the pipeline, checked under Spec *)

\* http_request was entered and has ended (returned or raised)
HttpRequestEnded ==
    \/ pc = "format"
    \/ pc = "except"
    \/ (pc = "done" /\ result.kind = "str")

\* the lines of a text: its pieces between CRLF tokens
Lines(text) == Split(text, CRLF)

\* sub occurs in text as a contiguous run of tokens
Contains(text, sub) ==
    \E i \in 0..(Len(text) - Len(sub)) : SubSeq(text, i + 1, i + Len(sub)) = sub

\* C1: every call of mcp_http_request, whatever its arguments (wrong types
\* included), ends by returning a string; no exception reaches the caller.
C1_AlwaysReturnsString ==
    pc = "done" => result.kind = "str"

\* C2: an ArgumentError means no urlopen was attempted; every failure raised
\* before the dispatch step is an ArgumentError, and every failure raised at
\* or after its start is a RequestError.
C2_FailureTaxonomy ==
    (pc = "except" /\ raisedAt \in {"validation", "dispatch"}) =>
        /\ (error.type = "ArgumentError" => sent = <<>>)
        /\ (raisedAt = "validation" => error.type = "ArgumentError")
        /\ (raisedAt = "dispatch" => error.type = "RequestError")

\* C3: when both data and json_ are supplied (not None; the empty string and
\* the empty dict included) http_request ends with ArgumentError and no
\* request is issued, whatever the other arguments are.
C3_BothBodiesRejected ==
    (HttpRequestEnded /\ args.data.kind # "NoneType" /\ args.json.kind # "NoneType") =>
        /\ raisedAt = "validation"
        /\ error.type = "ArgumentError"
        /\ sent = <<>>
        /\ response = Null

C3_Witness ==
    /\ pc = "except"
    /\ args.method = Str("GET")
    /\ args.url.kind = "str"
    /\ args.query.kind = "NoneType"
    /\ args.data.kind = "str" /\ args.data.s = <<>>
    /\ args.json.kind = "dict" /\ args.json.s = <<"{}">>
    /\ error = ArgumentError(<<"Both data and json cannot be provided at the same time">>)

\* C4: with a method among GET/POST/PUT/PATCH/DELETE in any letter case, a
\* string url, no query and no body, http_request hands exactly one request to
\* urlopen, its method upper-cased, its url the input url when that starts
\* with "http://" or "https://" and "https://" + url otherwise; and no
\* invocation dispatches more than once.
C4_ExactlyOneRequest ==
    /\ Len(sent) <= 1
    /\ (/\ HttpRequestEnded
        /\ args.method.kind = "str"
        /\ args.method.s \in {"GET", "post"}
        /\ args.url.kind = "str"
        /\ args.query.kind = "NoneType"
        /\ args.data.kind = "NoneType"
        /\ args.json.kind = "NoneType")
       => /\ Len(sent) = 1
          /\ sent[1].method = (IF args.method.s = "post" THEN "POST" ELSE "GET")
          /\ sent[1].url = (IF args.url.s[1] \in {"http://", "https://"}
                              THEN args.url.s
                              ELSE <<"https://">> \o args.url.s)
          /\ sent[1].data = <<>>

C4_Witness ==
    /\ pc = "format"
    /\ args.method = Str("post")
    /\ args.query.kind = "NoneType"
    /\ args.data.kind = "NoneType"
    /\ args.json.kind = "NoneType"
    /\ Len(sent) = 1
    /\ sent[1].method = "POST"
    /\ sent[1].url = <<"https://", "example.com", "/x", "?", "b", "=", "2">>

\* the remote peer answered with an HTTP error status and its body was read
AnsweredWithErrorStatus ==
    /\ pc \in {"format", "except", "done"}
    /\ answer.kind = "http_error"
    /\ answer.has_status
    /\ answer.readable

\* the content type as the claims define it: the first Content-Type header
\* (any letter case), "application/octet-stream" when there is none
DeclaredType(headers) ==
    IF \E i \in 1..Len(headers) : headers[i][1] \in {"Content-Type", "content-type"}
        THEN headers[CHOOSE i \in 1..Len(headers) :
                        /\ headers[i][1] \in {"Content-Type", "content-type"}
                        /\ \A j \in 1..(i-1) :
                              headers[j][1] \notin {"Content-Type", "content-type"}][2]
        ELSE <<"application/", "octet-stream">>

TextOrJson(ctype) ==
    \/ ctype[1] = "text/"
    \/ (Len(ctype) >= 2 /\ ctype[1] = "application/" /\ ctype[2] = "json")

\* the Response http_request returns carries the peer's status, reason,
\* headers and body, and no RequestError is raised
ErrorStatusGivesResponse ==
    AnsweredWithErrorStatus =>
        /\ raisedAt # "dispatch"
        /\ response.kind = "Response"
        /\ response.status_code = answer.status
        /\ response.reason = answer.reason
        /\ response.headers = answer.headers
        /\ response.content = answer.body

DispatchFailedBare ==
    /\ pc \in {"except", "done"}
    /\ \/ answer.kind \in {"url_error", "exception"}
       \/ (answer.kind = "http_error" /\ ~answer.has_status)

\* C6: a dispatch failure without a structured response (URLError, HTTPError
\* with no status, any other exception) makes http_request fail with
\* RequestError, and mcp_http_request returns a string whose first line is
\* "HTTP/1.1 500 MCP Service Internal Error".
C6_TransportFailureRendered ==
    DispatchFailedBare =>
        /\ raisedAt = "dispatch"
        /\ error.type = "RequestError"
        /\ (pc = "done" =>
              /\ result.kind = "str"
              /\ Lines(result.text)[1]
                   = <<"HTTP/1.1", " ", "500", " ", "MCP Service Internal Error">>)

C6_Witness ==
    /\ pc = "done"
    /\ answer.kind = "url_error"
    /\ result.kind = "str"
    /\ Lines(result.text)[1] = <<"HTTP/1.1", " ", "500", " ", "MCP Service Internal Error">>
    /\ Contains(result.text, <<"Failed to send request, ", "Connection refused">>)

\* C7: a Response whose content type starts with neither "text/" nor
\* "application/json" makes format_response_result fail with ResponseError,
\* and the string mcp_http_request returns holds nothing of the body.
C7_UnsupportedTypeNoBody ==
    (/\ pc \in {"except", "done"}
     /\ response.kind = "Response"
     /\ ~TextOrJson(DeclaredType(response.headers)))
       => /\ raisedAt = "render"
          /\ error.type = "ResponseError"
          /\ (pc = "done" =>
                /\ result.kind = "str"
                /\ Range(result.text) \cap Range(response.content.text) = {})

C7_Witness ==
    /\ pc = "done"
    /\ response.kind = "Response"
    /\ DeclaredType(response.headers) = <<"image/", "png">>
    /\ response.content = Utf8(HtmlBody)
    /\ error.type = "ResponseError"
    /\ result.kind = "str"

\* the block the claim describes: status line, the header lines when headers
\* are included, one empty line, the body
CanonicalBlock(resp, format_headers, body) ==
    <<resp.version, " ", ToString(resp.status_code), " ", resp.reason, CRLF>>
      \o (IF format_headers
            THEN Join([i \in 1..Len(resp.headers) |->
                          <<resp.headers[i][1], ": ">> \o resp.headers[i][2] \o <<CRLF>>],
                      <<>>)
            ELSE <<>>)
      \o <<CRLF>>
      \o body

\* C8: the string format_response_result produces is the status line, then
\* (only when headers are included) the header lines directly after it, then
\* exactly one empty line, then the body.
C8_CanonicalBlock ==
    (pc = "done" /\ raisedAt = "none" /\ result.kind = "str") =>
        \E body \in {response.content.text,
                     html_to_markdown(response.content.text),
                     clean_html(response.content.text, AllAttrs),
                     clean_html(response.content.text, OnlyAttrs({"id", "src", "href"}))} :
            result.text \in {CanonicalBlock(response, args.format_headers, body),
                             CanonicalBlock(response, args.format_headers, body) \o <<CRLF>>}

----------------------------------------------------------------------------
(* Properties of merge_query_to_url, checked under SpecMerge *)

\* every field of a query string decoded, blank values kept, as a sequence
AllPairs(qs) == parse_qsl_keep(qs, TRUE)

\* C9: the query of the returned url decodes to exactly the union of the
\* pairs decoded from the original url's query and the pairs (key, str(value))
\* of the mapping; scheme, host, path and fragment are those of the input.
C9_PairSetUnion ==
    (m_pc = "merged" /\ m_out.ok) =>
        LET pin  == urlparse(m_url)
            pout == urlparse(m_out.url)
        IN /\ Range(AllPairs(pout.query))
                = Range(AllPairs(pin.query))
                    \cup {<<it[1], it[2].s>> : it \in m_query.items}
           /\ pout.scheme = pin.scheme
           /\ pout.locpath = pin.locpath
           /\ pout.fragment = pin.fragment

\* C10: a pair of the original url and a pair of the mapping with the same
\* key and the same stringified value (str, int or float) occur once in the
\* produced query; two pairs with the same key and different values both occur.
C10_IdenticalPairsCollapse ==
    (m_pc = "merged" /\ m_out.ok) =>
        LET out  == AllPairs(urlparse(m_out.url).query)
            orig == Range(parse_qsl_keep(urlparse(m_url).query, FALSE))
        IN \A it \in m_query.items :
             \A p \in orig :
                IF p = <<it[1], it[2].s>>
                    THEN Cardinality({i \in 1..Len(out) : out[i] = p}) = 1
                    ELSE p[1] = it[1] => {p, <<it[1], it[2].s>>} \subseteq Range(out)

\* C11: merging the same mapping a second time, into the url the first merge
\* returned, succeeds and gives a url whose query decodes to the same set of
\* (key, value) pairs as the url of the first merge.
C11_MergeIdempotent ==
    m_pc = "again" =>
        /\ m_again.ok
        /\ Range(AllPairs(urlparse(m_again.url).query))
             = Range(AllPairs(urlparse(m_out.url).query))

C11_Witness ==
    /\ m_pc = "again"
    /\ m_url = <<"example.com", "/x", "?", "b", "=", "%32">>
    /\ m_query = Dict({<<<<"b">>, IntVal(<<"2">>)>>, <<<<"a">>, StrVal(<<>>)>>})
    /\ m_again.ok
    /\ Range(AllPairs(urlparse(m_again.url).query))
         = {<<<<"b">>, <<"2">>>>, <<<<"a">>, <<>>>>}

\* C19: every (key, value) pair of the original url's query, those with an
\* empty value ("a=" or a bare "a") included, is still a pair of the query of
\* the url merge_query_to_url returns, whatever the mapping (the empty one
\* included).
C19_OriginalParamsKept ==
    (m_pc = "merged" /\ m_out.ok) =>
        Range(AllPairs(urlparse(m_url).query))
            \subseteq Range(AllPairs(urlparse(m_out.url).query))

----------------------------------------------------------------------------
(* Properties of format_error_result, checked under SpecFormatError *)

\* the parts of the statement about ArgumentError, RequestError and any
\* other error: the synthetic first lines, the message, the generic block
SyntheticBlocks ==
    LET first == Lines(f_out.text)[1]
        e     == f_error
    IN CASE e.type = "ArgumentError" ->
              /\ first = <<"HTTP/1.1", " ", "500", " ",
                           "MCP Service Internal Error", ", invalid argument">>
              /\ Contains(f_out.text, e.message)
         [] e.type = "RequestError" ->
              /\ first = <<"HTTP/1.1", " ", "500", " ", "MCP Service Internal Error">>
              /\ Contains(f_out.text, e.message)
         [] e.type = "ResponseError" -> TRUE
         [] OTHER ->
              f_out.text = <<"HTTP/1.1", " ", "500", " ", "MCP Service Internal Error",
                             CRLF, "Content-Type: text/plain", CRLF, CRLF,
                             "An unexpected error occurred in the MCP service.">>

\* C12 as stated: format_error_result returns a string for every error, with
\* the synthetic blocks above, and for a ResponseError a first line that
\* starts with the version, status code and reason of its Response and goes
\* on with the reason the rendering failed (the error's reason, or at least
\* its message).
C12_FormatErrorAsStated ==
    f_pc = "formatted" =>
        /\ f_out.kind = "str"
        /\ SyntheticBlocks
        /\ f_error.type = "ResponseError" =>
              LET first == Lines(f_out.text)[1]
                  e     == f_error
              IN /\ StartsWith(first, <<e.response.version, " ",
                                        ToString(e.response.status_code), " ",
                                        e.response.reason>>)
                 /\ \/ (e.reason # <<>> /\ Contains(first, e.reason))
                    \/ Contains(first, e.message)

\* C12 amended: the same, where the first line for a ResponseError is the
\* version, status code and reason of its Response, then ", but " and the
\* error's reason field, or the words "there was an error when processing the
\* response" when the error carries no reason; the message follows in the
\* block.
C12_FormatErrorTotal ==
    f_pc = "formatted" =>
        /\ f_out.kind = "str"
        /\ SyntheticBlocks
        /\ f_error.type = "ResponseError" =>
              LET first == Lines(f_out.text)[1]
                  e     == f_error
              IN /\ first = <<e.response.version, " ", ToString(e.response.status_code),
                              " ", e.response.reason>>
                              \o (IF e.reason # <<>>
                                    THEN <<", but ">> \o e.reason
                                    ELSE <<", but there was an error when processing the response">>)
                 /\ Contains(f_out.text, e.message)

C12_Witness ==
    /\ f_pc = "formatted"
    /\ f_error.type = "ResponseError"
    /\ f_error.reason = <<"not utf-8 encoded">>
    /\ f_error.response.status_code = 404
    /\ Lines(f_out.text)[1]
         = <<"HTTP/2", " ", "404", " ", "Not Found", ", but ", "not utf-8 encoded">>

----------------------------------------------------------------------------
(* Further properties of the pipeline, checked under Spec *)

\* C13: a Response whose content type starts with "text/" or
\* "application/json" and whose body is not valid UTF-8 makes
\* format_response_result fail with a ResponseError whose reason is "not utf-8
\* encoded", and the first line of the string returned ends with
\* ", but not utf-8 encoded".
C13_NotUtf8Reason ==
    (/\ pc \in {"except", "done"}
     /\ response.kind = "Response"
     /\ TextOrJson(DeclaredType(response.headers))
     /\ ~response.content.utf8)
       => /\ raisedAt = "render"
          /\ error.type = "ResponseError"
          /\ error.reason = <<"not utf-8 encoded">>
          /\ (pc = "done" =>
                Lines(result.text)[1]
                  = <<response.version, " ", ToString(response.status_code), " ",
                      response.reason, ", but ", "not utf-8 encoded">>)

\* a header name that spells User-Agent in any letter case
IsUserAgent(name) == name \in {"User-Agent", "user-agent", "User-agent", "USER-AGENT"}

\* the values of the User-Agent headers among the items of a header dict
UserAgentValues(items) ==
    {items[i][2] : i \in {j \in 1..Len(items) : IsUserAgent(items[j][1])}}

\* C14: in the request handed to urlopen, with the force flag unset the
\* User-Agent is the caller's own value whenever the caller's headers have a
\* User-Agent header and the provider's value only when they have none; with
\* the force flag set and a provider value, it is the provider's value.
C14_UserAgentPolicy ==
    (pc \in {"dispatch", "format"} /\ args.headers.kind \in {"NoneType", "dict"}) =>
        LET caller   == IF args.headers.kind = "dict"
                          THEN UserAgentValues(args.headers.items) ELSE {}
            provider == IF Truthy(args.user_agent) THEN {args.user_agent.s} ELSE {}
            outbound == UserAgentValues(request.headers)
        IN IF Truthy(args.force_user_agnet) /\ provider # {}
             THEN outbound = provider
             ELSE IF caller # {}
                    THEN outbound # {} /\ outbound \subseteq caller
                    ELSE outbound = provider

\* text ends with the tokens of tail
EndsWith(text, tail) ==
    /\ Len(tail) <= Len(text)
    /\ SubSeq(text, Len(text) - Len(tail) + 1, Len(text)) = tail

\* the body the statement describes for a content type and a return_content
StatedBody(ctype, decoded, return_content) ==
    IF Len(ctype) >= 2 /\ ctype[1] = "text/" /\ ctype[2] = "html"
        THEN IF return_content = "basic_clean" THEN clean_html(decoded, AllAttrs)
             ELSE IF return_content = "strict_clean"
                    THEN clean_html(decoded, OnlyAttrs({"id", "src", "href"}))
             ELSE IF return_content = "markdown" THEN html_to_markdown(decoded)
             ELSE decoded
        ELSE decoded

\* C15: the body of the rendered block is the decoded text unchanged for
\* every return_content, except for a content type starting with "text/html":
\* there raw leaves it unchanged, basic_clean strips the non-visible elements
\* keeping all attributes, strict_clean strips them keeping only id, src and
\* href, and markdown converts it. The block ends with that body and holds
\* nothing of the decoded text before it.
C15_BodyByReturnContent ==
    (pc = "done" /\ raisedAt = "none" /\ result.kind = "str") =>
        LET body == StatedBody(DeclaredType(response.headers), response.content.text,
                               args.return_content)
            head == SubSeq(result.text, 1, Len(result.text) - Len(body) - 1)
        IN /\ EndsWith(result.text, <<CRLF>> \o body \o <<CRLF>>)
           /\ Range(head) \cap Range(response.content.text) = {}

C15_Witness ==
    /\ pc = "done"
    /\ raisedAt = "none"
    /\ response.kind = "Response"
    /\ content_type(response) = <<"text/", "html", "; charset=utf-8">>
    /\ response.content = Utf8(HtmlBody)
    /\ args.return_content = "strict_clean"
    /\ result.kind = "str"
    /\ EndsWith(result.text, <<CRLF, "<p", " id=i", ">", "hi", "</p>", CRLF>>)

----------------------------------------------------------------------------
(* Properties of concurrent invocations, checked under SpecConcurrent *)

\* C16: whatever the interleaving, an invocation that has returned gave the
\* string mcp_http_request gives for its own arguments and its own network
\* answer when run alone.
C16_NoInterference ==
    \A p \in Procs :
        c_pc[p] = "done" =>
            c_result[p] = mcp_http_request(c_args[p], c_answer[p], <<>>)

C16_Witness ==
    /\ c_pc[1] = "done"
    /\ c_pc[2] = "except"
    /\ c_args[1].method = Str("GET")
    /\ c_answer[1].kind = "response"
    /\ c_answer[2].kind = "url_error"
    /\ c_result[1].kind = "str"
    /\ Lines(c_result[1].text)[1] = <<"HTTP/1.1", " ", "200", " ", "OK">>
    /\ c_error[2].type = "RequestError"

----------------------------------------------------------------------------
(* Properties of the server process, checked under SpecServer *)

\* the fetch of the tool call produced no renderable content: a transport
\* failure, an unsupported content type or an undecodable body
FetchFailed ==
    /\ t_answer.kind # "null"
    /\ LET r == HandleAnswer(NormalizeUrl(t_args.url.s), t_answer)
       IN \/ r.kind # "Response"
          \/ ~format_response_result(r, FALSE, t_args.return_content).ok

\* C17: when the fetch produced no renderable content, fetch_to_file does
\* not return "File written successfully ..." and the target file does not
\* hold the error text.
C17_ErrorNotWritten ==
    (t_pc = "returned" /\ FetchFailed) =>
        /\ (t_result.kind = "str" =>
               ~StartsWith(t_result.text, <<"File written successfully to: ">>))
        /\ ~\E f \in files : f.path = t_path /\ f.content = t_content.text

\* the path is refused: not absolute, or its normalized absolute form starts
\* with a protected path
Refused(p) == p.lead = 0 \/ FirstProtected(abspath(p)) # ""

\* C18: a call of fetch_to_file with a refused path returns an "Error: ..."
\* message at once, with no request issued, no directory created and no file
\* written; a request is issued only for a path that passed both checks, and
\* directories and files change only after that request has returned.
C18_ChecksBeforeEffects ==
    [][ /\ (t_pc = "idle" /\ t_pc' # "idle" /\ Refused(t_args'.file_path)) =>
              /\ t_pc' = "returned"
              /\ t_result'.kind = "str"
              /\ t_result'.text[1] \in {"Error: Path must be absolute: ",
                                        "Error: Do not allow writing to protected paths: "}
              /\ net' = 0
              /\ dirs' = dirs
              /\ files' = files
        /\ (net' > net) => (t_pc = "fetch" /\ ~Refused(t_args.file_path))
        /\ (dirs' # dirs \/ files' # files) =>
              /\ t_pc = "write"
              /\ net = 1
              /\ t_content.kind = "str"
              /\ ~Refused(t_args.file_path)
      ]_vars

C18_Witness ==
    /\ t_pc = "returned"
    /\ t_args.file_path = Path(1, <<"tmp", "..", "etc", "cron.d">>)
    /\ t_result = [kind |-> "str",
                   text |-> <<"Error: Do not allow writing to protected paths: ", "/etc">>]
    /\ net = 0
    /\ dirs = {}
    /\ files = {}

\* C20: the User-Agent the tools use is the --user-agent value when one is
\* given, else one selected by random_ua when --random-user-agent is given,
\* else the fixed default.
C20_UserAgentResolution ==
    s_pc = "serving" =>
        IF s_opts.user_agent.kind = "str" THEN s_ua = s_opts.user_agent
        ELSE IF s_opts.random_user_agent THEN s_ua.s \in RandomUserAgents
        ELSE s_ua = Str(DefaultUserAgent)

====
